---- MODULE Spec2Model ----
(***************************************************************************)
(* Payment rail cost scenario explorer (src/app.py).                       *)
(*                                                                         *)
(* The script runs top to bottom every time a widget changes.  One run     *)
(* reads the widgets, derives the scenario quantities, runs the cost       *)
(* engine on the baseline and on the scenario, and assembles totals, the   *)
(* comparison table, its TOTAL row and the chart shares.                   *)
(*                                                                         *)
(* Units.  Money is counted in thousandths of a CHF (the finest format of  *)
(* a cost input is %.3f), write_off_rate in thousandths, so that           *)
(* write_off_rate * AVERAGE_BASKET_VALUE is again thousandths of a CHF.    *)
(* Every ratio the script forms with "/" is kept as an exact fraction in   *)
(* lowest terms.  The inputs the model draws are dyadic (0.5, 1.0, 1.5,    *)
(* -50 %, 0 %, 50 %, ...), for which double arithmetic is exact.           *)
(*                                                                         *)
(* Three of the seven payment methods are kept; the script treats every    *)
(* method alike.                                                           *)
(***************************************************************************)
EXTENDS Integers, Sequences, FiniteSets, TLC

\* Largest baseline transaction count per payment method.
MaxTx == 2

PAYMENT_METHODS == <<"Invoice (no fee)", "Prepayment", "TWINT">>

Methods == {PAYMENT_METHODS[i] : i \in DOMAIN PAYMENT_METHODS}

AVERAGE_BASKET_VALUE == 200

cost_blocks ==
    <<"PSP fees", "Process costs", "Dev & maintenance", "Write-offs",
      "Dunning fee revenue">>

Blocks == {cost_blocks[i] : i \in DOMAIN cost_blocks}

Params(psp, process, dev, rate, dunning) ==
    [psp_fee |-> psp, process_cost |-> process, dev_maintenance |-> dev,
     write_off_rate |-> rate, dunning_fee_per_tx |-> dunning]

default_cost_params ==
    [pm \in Methods |->
        CASE pm = "Invoice (no fee)" -> Params(0, 100, 100, 8, 300)
          [] pm = "Prepayment"       -> Params(0, 80, 50, 0, 0)
          [] pm = "TWINT"            -> Params(20, 50, 50, 0, 0)]

(***************************************************************************)
(* Floating-point values: a finite value is a fraction in lowest terms     *)
(* with a positive denominator; inf, -inf and nan are what numpy's         *)
(* element-wise division yields for a zero divisor, ZeroDivisionError is   *)
(* what Python's scalar "/" raises for one.                                *)
(***************************************************************************)
Abs(x) == IF x < 0 THEN -x ELSE x

RECURSIVE GCD(_, _)
GCD(a, b) == IF b = 0 THEN a ELSE GCD(b, a % b)

Special(k) == [kind |-> k, num |-> 0, den |-> 1]

Rat(n, d) ==
    LET g == GCD(Abs(n), Abs(d))
        s == IF d < 0 THEN -1 ELSE 1
    IN  [kind |-> "fin", num |-> s * (n \div g), den |-> s * (d \div g)]

Float(i) == Rat(i, 1)

IsFinite(x) == x.kind = "fin"

RatAdd(x, y) ==
    LET l == (x.den * y.den) \div GCD(x.den, y.den)
    IN  Rat(x.num * (l \div x.den) + y.num * (l \div y.den), l)

RatMul(x, y) ==
    LET a == Rat(x.num, y.den)
        b == Rat(y.num, x.den)
    IN  Rat(a.num * b.num, a.den * b.den)

\* Python's float / int division of two finite numbers.
PyDiv(x, y) ==
    IF y.num = 0 THEN Special("ZeroDivisionError")
    ELSE RatMul(x, Rat(y.den, y.num))

\* numpy / pandas element-wise division: no exception, IEEE results.
NpDiv(x, y) ==
    IF y.num # 0 THEN RatMul(x, Rat(y.den, y.num))
    ELSE IF x.num = 0 THEN Special("nan")
    ELSE IF x.num > 0 THEN Special("inf") ELSE Special("-inf")

\* x * k for a finite k > 0; inf, -inf and nan stay what they are.
NpScale(x, k) == IF IsFinite(x) THEN RatMul(x, Float(k)) ELSE x

\* Variant: int(x + 0.5), rounding to the nearest integer.
PyInt_nearest(x) ==
    IF x.num >= 0 THEN (2 * x.num + x.den) \div (2 * x.den)
    ELSE -((2 * (-x.num) + x.den) \div (2 * x.den))

\* int(x): the fractional part is dropped, toward zero.
PyInt(x) ==
    IF x.num >= 0 THEN x.num \div x.den ELSE -((-x.num) \div x.den)

(***************************************************************************)
(* The script's module-level names.  pc is the section the run is about to *)
(* execute; a name not yet assigned in the current run holds Unset.        *)
(***************************************************************************)
VARIABLES
    pc,
    baseline_transactions, growth_factor, relative_changes, cost_params,
    baseline_tx, scenario_tx,
    baseline_df, baseline_breakdown, scenario_df, scenario_breakdown,
    baseline_total_transactions, scenario_total_transactions,
    baseline_total_cost, scenario_total_cost,
    baseline_avg_cost, scenario_avg_cost,
    comparison_df, total_row, scenario_chart_df

inputs == <<baseline_transactions, growth_factor, relative_changes, cost_params>>

quantities == <<baseline_tx, scenario_tx>>

engine_out == <<baseline_df, baseline_breakdown, scenario_df, scenario_breakdown>>

totals ==
    <<baseline_total_transactions, scenario_total_transactions,
      baseline_total_cost, scenario_total_cost,
      baseline_avg_cost, scenario_avg_cost>>

tables == <<comparison_df, total_row, scenario_chart_df>>

vars == <<pc, inputs, quantities, engine_out, totals, tables>>

Unset == <<>>

(***************************************************************************)
(* Cost engine.                                                            *)
(***************************************************************************)
\* Variant: the write-off rate is used as if it were CHF per transaction.
per_tx_blocks_without_basket(params) ==
    ("PSP fees" :> params.psp_fee) @@ ("Process costs" :> params.process_cost)
    @@ ("Dev & maintenance" :> params.dev_maintenance)
    @@ ("Write-offs" :> params.write_off_rate)
    @@ ("Dunning fee revenue" :> -params.dunning_fee_per_tx)

compute_per_tx_cost_blocks(params) ==
    LET psp == params.psp_fee
        process == params.process_cost
        dev == params.dev_maintenance
        write_off == params.write_off_rate * AVERAGE_BASKET_VALUE
        dunning_revenue == -params.dunning_fee_per_tx
    IN  ("PSP fees" :> psp) @@ ("Process costs" :> process)
        @@ ("Dev & maintenance" :> dev) @@ ("Write-offs" :> write_off)
        @@ ("Dunning fee revenue" :> dunning_revenue)

block_cost(per_tx_blocks, cb, tx) == per_tx_blocks[cb] * tx

\* Variant: the accumulator leaves the revenue block out of the total.
RECURSIVE total_cost_pm_costs_only(_, _, _)
total_cost_pm_costs_only(per_tx_blocks, tx, k) ==
    IF k = 0 THEN 0
    ELSE total_cost_pm_costs_only(per_tx_blocks, tx, k - 1)
         + (IF cost_blocks[k] = "Dunning fee revenue" THEN 0
            ELSE per_tx_blocks[cost_blocks[k]] * tx)

\* The inner loop's accumulator after the first k cost blocks.
RECURSIVE total_cost_pm(_, _, _)
total_cost_pm(per_tx_blocks, tx, k) ==
    IF k = 0 THEN 0
    ELSE total_cost_pm(per_tx_blocks, tx, k - 1)
         + block_cost(per_tx_blocks, cost_blocks[k], tx)

\* Variant: the average without its "if tx > 0" guard.
avg_cost_pm_unguarded(total, tx) == PyDiv(Float(total), Float(tx))

avg_cost_pm(total, tx) ==
    IF tx > 0 THEN PyDiv(Float(total), Float(tx)) ELSE Float(0)

SummaryRow(tx, total, avg) ==
    ("Transactions" :> tx) @@ ("Total cost (CHF)" :> total)
    @@ ("Average cost per transaction (CHF)" :> avg)

\* Variant: breakdown kept across calls instead of being built afresh.
CarriedBreakdown ==
    IF pc = "scenario" THEN baseline_breakdown
    ELSE [pm \in Methods |-> [cb \in Blocks |-> 0]]

\* breakdown starts as 0.0 everywhere; each entry is then raised once.
EmptyBreakdown == [pm \in Methods |-> [cb \in Blocks |-> 0]]

compute_costs(transactions_dict, params) ==
    LET per_tx_blocks ==
            [pm \in Methods |-> compute_per_tx_cost_blocks(params[pm])]
        total ==
            [pm \in Methods |->
                total_cost_pm(per_tx_blocks[pm], transactions_dict[pm],
                              Len(cost_blocks))]
    IN  [df |->
            [pm \in Methods |->
                SummaryRow(transactions_dict[pm], total[pm],
                           avg_cost_pm(total[pm], transactions_dict[pm]))],
         breakdown |->
            [pm \in Methods |->
                [cb \in Blocks |->
                    EmptyBreakdown[pm][cb]
                    + block_cost(per_tx_blocks[pm], cb,
                                 transactions_dict[pm])]]]

(***************************************************************************)
(* Scenario quantities.                                                    *)
(***************************************************************************)
\* Variant: the change is subtracted instead of added.
mix_factor_subtracted(change) ==
    RatAdd(Float(1), PyDiv(Float(-change), Float(100)))

mix_factor(change) == RatAdd(Float(1), PyDiv(Float(change), Float(100)))

\* Variant: the factor without its "1.0 +".
scenario_quantity_without_one(base, growth, change) ==
    PyInt(RatMul(RatMul(Float(base), growth),
                 PyDiv(Float(change), Float(100))))

scenario_quantity(base, growth, change) ==
    PyInt(RatMul(RatMul(Float(base), growth), mix_factor(change)))

(***************************************************************************)
(* pandas helpers: the sum of one column over the rows, in row order.      *)
(***************************************************************************)
RECURSIVE ColumnSumTo(_, _, _)
ColumnSumTo(df, col, k) ==
    IF k = 0 THEN 0
    ELSE ColumnSumTo(df, col, k - 1) + df[PAYMENT_METHODS[k]][col]

ColumnSum(df, col) == ColumnSumTo(df, col, Len(PAYMENT_METHODS))

(***************************************************************************)
(* Comparison table, TOTAL row and chart shares.                           *)
(***************************************************************************)
grand_avg_cost(total_cost, total_transactions) ==
    IF total_transactions > 0
    THEN PyDiv(Float(total_cost), Float(total_transactions))
    ELSE Float(0)

\* Variant: the ratio without np.where's mask.
cost_delta_percent_unmasked(base, delta) ==
    NpScale(NpDiv(Float(delta), Float(base)), 100)

\* np.where(base > 0, delta / base * 100, 0.0): both branches are evaluated.
cost_delta_percent(base, delta) ==
    LET ratio == NpScale(NpDiv(Float(delta), Float(base)), 100)
    IN  IF base > 0 THEN ratio ELSE Float(0)

ComparisonRow(base_row, scen_row) ==
    LET base == base_row["Total cost (CHF)"]
        scen == scen_row["Total cost (CHF)"]
        delta == scen - base
    IN  ("Baseline transactions" :> base_row["Transactions"])
        @@ ("Scenario transactions" :> scen_row["Transactions"])
        @@ ("Baseline cost (CHF)" :> base)
        @@ ("Scenario cost (CHF)" :> scen)
        @@ ("Cost delta (CHF)" :> delta)
        @@ ("Cost delta (%)" :> cost_delta_percent(base, delta))

\* The sum of a column of floats over the rows, in row order.
RECURSIVE FloatColumnSumTo(_, _, _)
FloatColumnSumTo(df, col, k) ==
    IF k = 0 THEN Float(0)
    ELSE RatAdd(FloatColumnSumTo(df, col, k - 1), df[PAYMENT_METHODS[k]][col])

FloatColumnSum(df, col) == FloatColumnSumTo(df, col, Len(PAYMENT_METHODS))

\* Variant: the TOTAL row's percentage as the sum of the rows' percentages.
total_delta_percent_summed(cmp) == FloatColumnSum(cmp, "Cost delta (%)")

total_delta_percent(cmp) ==
    IF ColumnSum(cmp, "Baseline cost (CHF)") > 0
    THEN RatMul(PyDiv(Float(ColumnSum(cmp, "Scenario cost (CHF)")
                            - ColumnSum(cmp, "Baseline cost (CHF)")),
                      Float(ColumnSum(cmp, "Baseline cost (CHF)"))),
                Float(100))
    ELSE Float(0)

TotalRowOf(cmp) ==
    ("Baseline transactions" :> ColumnSum(cmp, "Baseline transactions"))
    @@ ("Scenario transactions" :> ColumnSum(cmp, "Scenario transactions"))
    @@ ("Baseline cost (CHF)" :> ColumnSum(cmp, "Baseline cost (CHF)"))
    @@ ("Scenario cost (CHF)" :> ColumnSum(cmp, "Scenario cost (CHF)"))
    @@ ("Cost delta (CHF)" :> ColumnSum(cmp, "Cost delta (CHF)"))
    @@ ("Cost delta (%)" :> total_delta_percent(cmp))

\* Variant: the guard tests "total != 0".
share_percent_nonzero(value, total) ==
    IF total # 0
    THEN NpScale(NpDiv(Float(value), Float(total)), 100)
    ELSE Float(0)

\* column / total * 100 if total > 0 else 0.0
share_percent(value, total) ==
    IF total > 0
    THEN NpScale(NpDiv(Float(value), Float(total)), 100)
    ELSE Float(0)

ChartRow(row, total_cost, total_transactions) ==
    row
    @@ ("Cost share (%)" :> share_percent(row["Total cost (CHF)"], total_cost))
    @@ ("Transaction share (%)" :>
            share_percent(row["Transactions"], total_transactions))

(***************************************************************************)
(* Widget values a run can read.                                           *)
(***************************************************************************)
\* Growth slider: 0.5 .. 2.0, default 1.0.
GrowthSlider == {Rat(1, 2), Rat(1, 1), Rat(3, 2)}

\* Mix sliders: -50 .. 50 percent, default 0.
ChangeSlider == {-50, 0, 50}

\* Cost records typed into the number inputs, which have no minimum.
EditedParams == {Params(0, 0, 0, 0, 0), Params(-5, 10, 20, 1, 300)}

ParamChoices(pm) == {default_cost_params[pm]} \cup EditedParams

\* Factors outside the sliders' ranges, as the arithmetic alone admits them.
GrowthUnchecked == {Rat(-1, 1), Rat(1, 1), Rat(5, 2)}

ChangeUnchecked == {-250, -100, 0, 150}

(***************************************************************************)
(* One run of the script.                                                  *)
(***************************************************************************)
Init ==
    /\ pc = "build"
    /\ baseline_transactions \in [Methods -> 0..MaxTx]
    /\ growth_factor = Rat(1, 1)
    /\ relative_changes = [pm \in Methods |-> 0]
    /\ cost_params = default_cost_params
    /\ baseline_tx = Unset /\ scenario_tx = Unset
    /\ baseline_df = Unset /\ baseline_breakdown = Unset
    /\ scenario_df = Unset /\ scenario_breakdown = Unset
    /\ baseline_total_transactions = Unset
    /\ scenario_total_transactions = Unset
    /\ baseline_total_cost = Unset /\ scenario_total_cost = Unset
    /\ baseline_avg_cost = Unset /\ scenario_avg_cost = Unset
    /\ comparison_df = Unset /\ total_row = Unset
    /\ scenario_chart_df = Unset

BuildScenarioTx ==
    /\ pc = "build"
    /\ baseline_tx' = [pm \in Methods |-> baseline_transactions[pm]]
    /\ scenario_tx' =
          [pm \in Methods |->
              scenario_quantity(baseline_transactions[pm], growth_factor,
                                relative_changes[pm])]
    /\ pc' = "baseline"
    /\ UNCHANGED <<inputs, engine_out, totals, tables>>

ComputeBaseline ==
    /\ pc = "baseline"
    /\ LET r == compute_costs(baseline_tx, cost_params)
       IN  /\ baseline_df' = r.df
           /\ baseline_breakdown' = r.breakdown
    /\ pc' = "scenario"
    /\ UNCHANGED <<inputs, quantities, scenario_df, scenario_breakdown,
                   totals, tables>>

ComputeScenario ==
    /\ pc = "scenario"
    /\ LET r == compute_costs(scenario_tx, cost_params)
       IN  /\ scenario_df' = r.df
           /\ scenario_breakdown' = r.breakdown
    /\ pc' = "totals"
    /\ UNCHANGED <<inputs, quantities, baseline_df, baseline_breakdown,
                   totals, tables>>

TotalsAndAverages ==
    /\ pc = "totals"
    /\ baseline_total_transactions' = ColumnSum(baseline_df, "Transactions")
    /\ scenario_total_transactions' = ColumnSum(scenario_df, "Transactions")
    /\ baseline_total_cost' = ColumnSum(baseline_df, "Total cost (CHF)")
    /\ scenario_total_cost' = ColumnSum(scenario_df, "Total cost (CHF)")
    /\ baseline_avg_cost' =
          grand_avg_cost(ColumnSum(baseline_df, "Total cost (CHF)"),
                         ColumnSum(baseline_df, "Transactions"))
    /\ scenario_avg_cost' =
          grand_avg_cost(ColumnSum(scenario_df, "Total cost (CHF)"),
                         ColumnSum(scenario_df, "Transactions"))
    /\ pc' = "comparison"
    /\ UNCHANGED <<inputs, quantities, engine_out, tables>>

BuildComparison ==
    /\ pc = "comparison"
    /\ comparison_df' =
          [pm \in Methods |-> ComparisonRow(baseline_df[pm], scenario_df[pm])]
    /\ pc' = "total_row"
    /\ UNCHANGED <<inputs, quantities, engine_out, totals, total_row,
                   scenario_chart_df>>

AddTotalRow ==
    /\ pc = "total_row"
    /\ total_row' = TotalRowOf(comparison_df)
    /\ pc' = "charts"
    /\ UNCHANGED <<inputs, quantities, engine_out, totals, comparison_df,
                   scenario_chart_df>>

PrepareChartShares ==
    /\ pc = "charts"
    /\ scenario_chart_df' =
          [pm \in Methods |->
              ChartRow(scenario_df[pm], scenario_total_cost,
                       scenario_total_transactions)]
    /\ pc' = "done"
    /\ UNCHANGED <<inputs, quantities, engine_out, totals, comparison_df,
                   total_row>>

\* A widget changed: the script starts over with the widgets' new values.
Restart(growth, changes, params) ==
    /\ pc = "done"
    /\ growth_factor' = growth
    /\ relative_changes' = changes
    /\ cost_params' = params
    /\ baseline_tx' = Unset /\ scenario_tx' = Unset
    /\ baseline_df' = Unset /\ baseline_breakdown' = Unset
    /\ scenario_df' = Unset /\ scenario_breakdown' = Unset
    /\ baseline_total_transactions' = Unset
    /\ scenario_total_transactions' = Unset
    /\ baseline_total_cost' = Unset /\ scenario_total_cost' = Unset
    /\ baseline_avg_cost' = Unset /\ scenario_avg_cost' = Unset
    /\ comparison_df' = Unset /\ total_row' = Unset
    /\ scenario_chart_df' = Unset
    /\ pc' = "build"
    /\ UNCHANGED baseline_transactions

\* Streamlit reruns the script on each widget change: one widget per rerun.
MoveGrowthSlider ==
    \E growth \in GrowthSlider :
        Restart(growth, relative_changes, cost_params)

MoveChangeSlider ==
    \E pm \in Methods, change \in ChangeSlider :
        Restart(growth_factor, [relative_changes EXCEPT ![pm] = change],
                cost_params)

EditCostParams ==
    \E pm \in Methods : \E params \in ParamChoices(pm) :
        Restart(growth_factor, relative_changes,
                [cost_params EXCEPT ![pm] = params])

Rerun == MoveGrowthSlider \/ MoveChangeSlider \/ EditCostParams

\* The same reruns with factors the sliders would not deliver.
SetGrowthUnchecked ==
    \E growth \in GrowthUnchecked :
        Restart(growth, relative_changes, cost_params)

SetChangeUnchecked ==
    \E pm \in Methods, change \in ChangeUnchecked :
        Restart(growth_factor, [relative_changes EXCEPT ![pm] = change],
                cost_params)

RerunUnchecked == SetGrowthUnchecked \/ SetChangeUnchecked

RunScript ==
    \/ BuildScenarioTx
    \/ ComputeBaseline
    \/ ComputeScenario
    \/ TotalsAndAverages
    \/ BuildComparison
    \/ AddTotalRow
    \/ PrepareChartShares

Next == RunScript \/ Rerun

Spec == Init /\ [][Next]_vars

NextUnchecked == RunScript \/ RerunUnchecked

SpecUnchecked == Init /\ [][NextUnchecked]_vars

(***************************************************************************)
(* Properties.                                                             *)
(***************************************************************************)
BaselineRan == pc \notin {"build", "baseline"}

ScenarioRan == pc \notin {"build", "baseline", "scenario"}

TotalsKnown == pc \in {"comparison", "total_row", "charts", "done"}

ComparisonBuilt == pc \in {"total_row", "charts", "done"}

TotalRowBuilt == pc \in {"charts", "done"}

\* perUnitValue * q for each of the five blocks, written out.
BlocksAsSpecified(breakdown, tx) ==
    \A pm \in Methods :
        /\ DOMAIN breakdown[pm] = Blocks
        /\ breakdown[pm]["PSP fees"] = cost_params[pm].psp_fee * tx[pm]
        /\ breakdown[pm]["Process costs"] = cost_params[pm].process_cost * tx[pm]
        /\ breakdown[pm]["Dev & maintenance"]
              = cost_params[pm].dev_maintenance * tx[pm]
        /\ breakdown[pm]["Write-offs"]
              = cost_params[pm].write_off_rate * AVERAGE_BASKET_VALUE * tx[pm]
        /\ breakdown[pm]["Dunning fee revenue"]
              = (-cost_params[pm].dunning_fee_per_tx) * tx[pm]

\* C1: in the breakdown of either run every category has all five cost
\* blocks, each equal to its per-unit value times the category's quantity.
C1_BlockCosts ==
    /\ BaselineRan => BlocksAsSpecified(baseline_breakdown, baseline_tx)
    /\ ScenarioRan => BlocksAsSpecified(scenario_breakdown, scenario_tx)

C1_Witness ==
    /\ ScenarioRan
    /\ \E pm \in Methods :
          /\ scenario_tx[pm] > 1
          /\ \A cb \in Blocks : scenario_breakdown[pm][cb] # 0
    /\ \E pm \in Methods :
          /\ scenario_tx[pm] > 0
          /\ scenario_breakdown[pm]["Write-offs"] = 0

SumOfBlocks(row) ==
    row["PSP fees"] + row["Process costs"] + row["Dev & maintenance"]
    + row["Write-offs"] + row["Dunning fee revenue"]

\* C2: the total cost a run reports for a category is the sum of that
\* category's five block costs in the breakdown of the same run, negative
\* parameters included.
C2_Additivity ==
    /\ BaselineRan =>
          \A pm \in Methods :
              baseline_df[pm]["Total cost (CHF)"]
                  = SumOfBlocks(baseline_breakdown[pm])
    /\ ScenarioRan =>
          \A pm \in Methods :
              scenario_df[pm]["Total cost (CHF)"]
                  = SumOfBlocks(scenario_breakdown[pm])

C2_Witness ==
    /\ ScenarioRan
    /\ \E pm \in Methods :
          /\ cost_params[pm].psp_fee < 0
          /\ scenario_breakdown[pm]["Dunning fee revenue"] < 0
          /\ scenario_df[pm]["Total cost (CHF)"] < 0

SharesSumTo(col, total) == FloatColumnSum(scenario_chart_df, col) = Float(total)

AllSharesZero(col) ==
    \A pm \in Methods : scenario_chart_df[pm][col] = Float(0)

\* C4 as stated: the shares sum to 100 whenever the grand total is nonzero,
\* a negative grand total cost included, and are all 0 when it is 0.
C4_SharesForNonzeroTotal ==
    pc = "done" =>
        /\ scenario_total_cost # 0 => SharesSumTo("Cost share (%)", 100)
        /\ scenario_total_cost = 0 => AllSharesZero("Cost share (%)")
        /\ scenario_total_transactions # 0
              => SharesSumTo("Transaction share (%)", 100)
        /\ scenario_total_transactions = 0
              => AllSharesZero("Transaction share (%)")

\* C4: the shares sum to 100 whenever the grand total is greater than 0;
\* when it is 0 or negative every share is 0 and they sum to 0.
C4_SharesForPositiveTotal ==
    pc = "done" =>
        /\ scenario_total_cost > 0 => SharesSumTo("Cost share (%)", 100)
        /\ scenario_total_cost <= 0 =>
              /\ AllSharesZero("Cost share (%)")
              /\ SharesSumTo("Cost share (%)", 0)
        /\ scenario_total_transactions > 0
              => SharesSumTo("Transaction share (%)", 100)
        /\ scenario_total_transactions <= 0 =>
              /\ AllSharesZero("Transaction share (%)")
              /\ SharesSumTo("Transaction share (%)", 0)

C4_Witness ==
    /\ pc = "done"
    /\ scenario_total_cost < 0
    /\ \E pm \in Methods : scenario_df[pm]["Total cost (CHF)"] > 0
    /\ scenario_total_transactions > 0
    /\ \E pm \in Methods : scenario_chart_df[pm]["Transaction share (%)"].den > 1

\* C5: a row's cost delta is scenario total minus baseline total; its
\* percentage is delta / baseline * 100 when the baseline total is
\* greater than 0 and exactly 0 otherwise, and is always a finite number.
C5_RowDeltas ==
    ComparisonBuilt =>
        \A pm \in Methods :
            LET base == baseline_df[pm]["Total cost (CHF)"]
                scen == scenario_df[pm]["Total cost (CHF)"]
                row == comparison_df[pm]
            IN  /\ row["Cost delta (CHF)"] = scen - base
                /\ IsFinite(row["Cost delta (%)"])
                /\ base > 0 =>
                      /\ row["Cost delta (%)"].num * base
                            = (scen - base) * 100 * row["Cost delta (%)"].den
                /\ base <= 0 => row["Cost delta (%)"] = Float(0)

C5_Witness ==
    /\ ComparisonBuilt
    /\ \E pm \in Methods :
          /\ baseline_tx[pm] > 0
          /\ comparison_df[pm]["Baseline cost (CHF)"] = 0
    /\ \E pm \in Methods :
          /\ comparison_df[pm]["Baseline cost (CHF)"] < 0
          /\ comparison_df[pm]["Cost delta (CHF)"] # 0
    /\ \E pm \in Methods :
          /\ comparison_df[pm]["Baseline cost (CHF)"] > 0
          /\ comparison_df[pm]["Cost delta (%)"].num < 0

ZeroQuantityHandled(df) ==
    \A pm \in Methods :
        LET tx == df[pm]["Transactions"]
            total == df[pm]["Total cost (CHF)"]
            avg == df[pm]["Average cost per transaction (CHF)"]
        IN  /\ IsFinite(avg)
            /\ tx = 0 => (total = 0 /\ avg = Float(0))
            /\ tx > 0 => avg.num * tx = total * avg.den

\* C6: a category with quantity 0 has total cost 0 and average cost 0; a
\* category with a positive quantity has average total / quantity; no
\* average is the outcome of a division by zero.
C6_ZeroQuantity ==
    /\ BaselineRan => ZeroQuantityHandled(baseline_df)
    /\ ScenarioRan => ZeroQuantityHandled(scenario_df)

C6_Witness ==
    /\ ScenarioRan
    /\ \E pm \in Methods :
          /\ baseline_tx[pm] > 0
          /\ scenario_tx[pm] = 0
          /\ baseline_df[pm]["Total cost (CHF)"] # 0
    /\ \E pm \in Methods :
          /\ scenario_tx[pm] > 1
          /\ scenario_df[pm]["Average cost per transaction (CHF)"].num < 0

\* The product of line 258 as numerator and positive denominator.
ProductNum(pm) ==
    baseline_transactions[pm] * growth_factor.num * (100 + relative_changes[pm])

ProductDen == growth_factor.den * 100

RECURSIVE SetSum(_, _)
SetSum(f, S) ==
    IF S = {} THEN 0
    ELSE LET x == CHOOSE y \in S : TRUE IN f[x] + SetSum(f, S \ {x})

CategorySum(df, col) == SetSum([pm \in Methods |-> df[pm][col]], Methods)

\* C8: the grand totals of either run are the sums of the per-category
\* values, and the TOTAL row holds the row formulas applied to the grand
\* totals: delta = scenario - baseline, percentage = delta / baseline * 100
\* when the baseline grand total is greater than 0 and 0 otherwise.
C8_GrandTotals ==
    /\ TotalsKnown =>
          /\ baseline_total_cost = CategorySum(baseline_df, "Total cost (CHF)")
          /\ scenario_total_cost = CategorySum(scenario_df, "Total cost (CHF)")
          /\ baseline_total_transactions
                = CategorySum(baseline_df, "Transactions")
          /\ scenario_total_transactions
                = CategorySum(scenario_df, "Transactions")
    /\ TotalRowBuilt =>
          LET delta == scenario_total_cost - baseline_total_cost
              pct == total_row["Cost delta (%)"]
          IN  /\ total_row["Baseline cost (CHF)"] = baseline_total_cost
              /\ total_row["Scenario cost (CHF)"] = scenario_total_cost
              /\ total_row["Baseline transactions"]
                    = baseline_total_transactions
              /\ total_row["Scenario transactions"]
                    = scenario_total_transactions
              /\ total_row["Cost delta (CHF)"] = delta
              /\ IsFinite(pct)
              /\ baseline_total_cost > 0
                    => pct.num * baseline_total_cost = delta * 100 * pct.den
              /\ baseline_total_cost <= 0 => pct = Float(0)

C8_Witness ==
    /\ TotalRowBuilt
    /\ baseline_total_cost > 0
    /\ total_row["Cost delta (CHF)"] # 0
    /\ \A pm \in Methods : comparison_df[pm]["Baseline cost (CHF)"] > 0
    /\ total_row["Cost delta (%)"] # FloatColumnSum(comparison_df, "Cost delta (%)")

Neutral ==
    /\ growth_factor = Float(1)
    /\ \A pm \in Methods : relative_changes[pm] = 0

\* C9: with growth factor 1.0 and every relative change 0 the scenario
\* quantities are the baseline quantities, and every row's cost delta and
\* the TOTAL row's cost delta are 0.
C9_NeutralScenario ==
    Neutral =>
        /\ pc # "build" =>
              \A pm \in Methods :
                  /\ scenario_tx[pm] = baseline_transactions[pm]
                  /\ scenario_tx[pm] = baseline_tx[pm]
        /\ ComparisonBuilt =>
              \A pm \in Methods : comparison_df[pm]["Cost delta (CHF)"] = 0
        /\ TotalRowBuilt => total_row["Cost delta (CHF)"] = 0

C9_Witness ==
    /\ pc = "done"
    /\ Neutral
    /\ cost_params # default_cost_params
    /\ \A pm \in Methods : baseline_tx[pm] > 0
    /\ baseline_total_cost # 0

SameResults ==
    (ScenarioRan /\ scenario_tx = baseline_tx) =>
        /\ scenario_df = baseline_df
        /\ scenario_breakdown = baseline_breakdown

InputsKept ==
    pc \in {"baseline", "scenario"} =>
        /\ cost_params' = cost_params
        /\ baseline_tx' = baseline_tx
        /\ scenario_tx' = scenario_tx
        /\ (pc = "scenario" =>
              /\ baseline_df' = baseline_df
              /\ baseline_breakdown' = baseline_breakdown)

====
